---- MODULE Spec2Model ----
(***************************************************************************)
(* Model of the Alert block tool (src/src/index.js): one widget instance   *)
(* bound to a host editor.  The record this.data = {type, message}, the    *)
(* rendered container (class list + message element), the settings        *)
(* buttons, and the outcome of the most recent call are the state.        *)
(*                                                                         *)
(* A message is an HTML fragment, modelled as a sequence of lexemes.      *)
(* Assigning it to innerHTML parses it and reading innerHTML serializes   *)
(* the parsed tree (Serialize below), which is not the identity.          *)
(***************************************************************************)
EXTENDS Integers, Sequences, FiniteSets, TLC

\* ---- bounds -----------------------------------------------------------
\* longest message (in lexemes) handed to the constructor or to import()
MaxLen == 2

\* ---- static members of the class ---------------------------------------
DEFAULT_TYPE == "info"

ALERT_TYPES == <<"info", "hinweis", "warnung">>

\* Array.prototype.includes on ALERT_TYPES
Includes(arr, v) == \E i \in 1..Len(arr) : arr[i] = v

\* CSS.wrapper and CSS.wrapperForType
CssWrapper == "meldung"

wrapperForType(type) == "meldung_" \o type

\* ---- the input universe ------------------------------------------------
\* a type string outside the supported list (one of the commented-out types)
UnsupportedType == "danger"

AnyTypes == {ALERT_TYPES[i] : i \in 1..Len(ALERT_TYPES)} \cup {UnsupportedType}

\* text character, bare ampersand, character reference
Lexemes == {"a", "&", "&amp;"}

SeqsUpTo(n) == UNION {[1..k -> Lexemes] : k \in 0..n}

Messages == SeqsUpTo(MaxLen)

\* ---- innerHTML ----------------------------------------------------------
\* The fragment parser followed by the fragment serializer: a text character
\* is kept; a bare "&" and the reference "&amp;" both parse to the text "&",
\* which is written back as "&amp;".
RECURSIVE Serialize(_)
Serialize(m) ==
  IF m = <<>> THEN <<>>
  ELSE LET h == Head(m)
       IN  (CASE h = "a"     -> <<"a">>
              [] h = "&"     -> <<"&amp;">>
              [] h = "&amp;" -> <<"&amp;">>) \o Serialize(Tail(m))

\* what an element's innerHTML can read as: always a serialized fragment
DomContents == {Serialize(m) : m \in Messages}

\* ---- host inputs ---------------------------------------------------------
\* a JS object with optional fields is a function on the fields it has
NoFields == <<>>

Has(obj, f) == f \in DOMAIN obj

Configs == {NoFields} \cup {[defaultType |-> t] : t \in {"", "warnung", UnsupportedType}}

InputData ==
  {NoFields}
    \cup {[type |-> t] : t \in AnyTypes}
    \cup {[message |-> m] : m \in Messages}
    \cup {[type |-> t, message |-> m] : t \in AnyTypes, m \in Messages}

PasteElements == {NoFields} \cup {[innerHTML |-> h] : h \in DomContents}

\* ---- state ---------------------------------------------------------------
VARIABLES
  config,      \* the constructor's config argument (history)
  origin,      \* what this.data was last built from: the constructor's data
               \* argument or the pasted element (history)
  defaultType, \* this.defaultType
  data,        \* this.data
  container,   \* this.container: undefined, or the rendered element
  readOnly,    \* this.readOnly
  settings,    \* the buttons made by the last renderSettings()
  last,        \* the most recent call: its name, outcome and return value
  lastPick,    \* the type picked last since this.data was built, "" if none
               \* (history)
  edited,      \* the user edited the message element since it was rendered
               \* or this.data was built (history)
  conv         \* the last conversionConfig call and its result

vars == <<config, origin, defaultType, data, container, readOnly, settings,
          last, lastPick, edited, conv>>

widget == <<config, origin, defaultType, data, container, readOnly, settings,
            last, lastPick, edited>>

Undefined == [defined |-> FALSE, classList |-> {}, innerHTML |-> <<>>]

NoSettings == [defined |-> FALSE, active |-> {}]

Call(op, threw, type, message) ==
  [op |-> op, threw |-> threw, type |-> type, message |-> message]

NoConv == [op |-> "none", arg |-> [type |-> "", message |-> <<>>],
           type |-> "", message |-> <<>>]

\* ---- constructor ---------------------------------------------------------
\* config.defaultType || Alert.DEFAULT_TYPE
CtorDefaultType(cfg) ==
  IF Has(cfg, "defaultType") /\ cfg.defaultType # ""
    THEN cfg.defaultType
    ELSE DEFAULT_TYPE

\* a constructor that keeps whatever type it is given
CtorTypeUnchecked(d, dflt) == IF Has(d, "type") THEN d.type ELSE dflt

\* ALERT_TYPES.includes(data.type) ? data.type : this.defaultType
CtorType(d, dflt) ==
  IF Has(d, "type") /\ Includes(ALERT_TYPES, d.type) THEN d.type ELSE dflt

\* data.message || ''
CtorMessage(d) ==
  IF Has(d, "message") /\ d.message # <<>> THEN d.message ELSE <<>>

Init ==
  \E d \in InputData, cfg \in Configs, ro \in BOOLEAN :
    /\ config = cfg
    /\ origin = [kind |-> "constructor", input |-> d]
    /\ defaultType = CtorDefaultType(cfg)
    /\ data = [type |-> CtorType(d, CtorDefaultType(cfg)),
               message |-> CtorMessage(d)]
    /\ container = Undefined
    /\ readOnly = ro
    /\ settings = NoSettings
    /\ last = Call("constructor", FALSE, "", <<>>)
    /\ lastPick = ""
    /\ edited = FALSE
    /\ conv = NoConv

\* ---- render() ------------------------------------------------------------
\* a render that leaves the message element empty
RenderedMessageEmpty(d) == <<>>

\* innerHTML: this.data.message
RenderedMessage(d) == Serialize(d.message)

Render ==
  /\ container' = [defined |-> TRUE,
                   classList |-> {CssWrapper, wrapperForType(data.type)},
                   innerHTML |-> RenderedMessage(data)]
  /\ last' = Call("render", FALSE, "", <<>>)
  /\ edited' = FALSE
  /\ UNCHANGED <<config, origin, defaultType, data, readOnly, settings,
                 lastPick, conv>>

\* ---- renderSettings() ----------------------------------------------------
RenderSettings ==
  /\ settings' = [defined |-> TRUE,
                  active |-> {ALERT_TYPES[i] : i \in
                                {j \in 1..Len(ALERT_TYPES) : data.type = ALERT_TYPES[j]}}]
  /\ last' = Call("renderSettings", FALSE, "", <<>>)
  /\ UNCHANGED <<config, origin, defaultType, data, container, readOnly,
                 lastPick, edited, conv>>

\* ---- _changeAlertType(newType) -------------------------------------------
\* the class list after the forEach over ALERT_TYPES
RECURSIVE ChangeClasses(_, _, _)
ChangeClasses(classList, newType, i) ==
  IF i > Len(ALERT_TYPES) THEN classList
  ELSE LET alertClass == wrapperForType(ALERT_TYPES[i])
           removed == classList \ {alertClass}
       IN  ChangeClasses(IF newType = ALERT_TYPES[i]
                           THEN removed \cup {alertClass}
                           ELSE removed,
                         newType, i + 1)

\* the click handler of the settings button for `type`
Click(type) ==
  /\ settings.defined
  /\ data' = [data EXCEPT !.type = type]
  /\ lastPick' = type
  /\ IF container.defined
       THEN /\ container' = [container EXCEPT
                               !.classList = ChangeClasses(@, type, 1)]
            /\ settings' = [settings EXCEPT !.active = {type}]
            /\ last' = Call("click", FALSE, type, <<>>)
       ELSE \* this.container is undefined: reading .classList throws
            /\ last' = Call("click", TRUE, type, <<>>)
            /\ UNCHANGED <<container, settings>>
  /\ UNCHANGED <<config, origin, defaultType, readOnly, edited, conv>>

\* ---- the user types into the contentEditable message element -------------
Edit(h) ==
  /\ container.defined
  /\ ~readOnly
  /\ h # container.innerHTML
  /\ container' = [container EXCEPT !.innerHTML = h]
  /\ edited' = TRUE
  /\ last' = Call("edit", FALSE, "", <<>>)
  /\ UNCHANGED <<config, origin, defaultType, data, readOnly, settings,
                 lastPick, conv>>

\* ---- save(alertElement) --------------------------------------------------
\* a save that returns the record without reading the element
SaveResultFromRecord(d, el) == [type |-> d.type, message |-> d.message]

\* { ...this.data, message: messageEl.innerHTML }
SaveResult(d, el) == [type |-> d.type, message |-> el.innerHTML]

\* a save that also stores what it read in this.data
SaveStoring ==
  /\ container.defined
  /\ data' = SaveResult(data, container)
  /\ last' = Call("save", FALSE, data.type, container.innerHTML)
  /\ UNCHANGED <<config, origin, defaultType, container, readOnly, settings,
                 lastPick, edited, conv>>

Save ==
  /\ container.defined
  /\ LET r == SaveResult(data, container)
     IN  last' = Call("save", FALSE, r.type, r.message)
  /\ UNCHANGED <<config, origin, defaultType, data, container, readOnly,
                 settings, lastPick, edited, conv>>

\* ---- onPaste(event) ------------------------------------------------------
\* data.innerHTML || ''
PasteMessage(el) ==
  IF Has(el, "innerHTML") /\ el.innerHTML # <<>> THEN el.innerHTML ELSE <<>>

\* a paste that takes the class default instead of this.defaultType
PasteRecordClassDefault(el, dflt) ==
  [type |-> DEFAULT_TYPE, message |-> PasteMessage(el)]

PasteRecord(el, dflt) == [type |-> dflt, message |-> PasteMessage(el)]

OnPaste(el) ==
  /\ data' = PasteRecord(el, defaultType)
  /\ origin' = [kind |-> "paste", input |-> el]
  /\ lastPick' = ""
  /\ edited' = FALSE
  /\ last' = Call("onPaste", FALSE, "", <<>>)
  /\ UNCHANGED <<config, defaultType, container, readOnly, settings, conv>>

\* ---- conversionConfig ----------------------------------------------------
ConvExport(d) == d.message

\* an import that serializes the string as HTML first
ConvImportSerialized(string) ==
  [message |-> Serialize(string), type |-> DEFAULT_TYPE]

ConvImport(string) == [message |-> string, type |-> DEFAULT_TYPE]

Import(s) ==
  /\ LET r == ConvImport(s)
     IN  conv' = [op |-> "import", arg |-> [type |-> "", message |-> s],
                  type |-> r.type, message |-> r.message]
  /\ UNCHANGED widget

Export(d) ==
  /\ conv' = [op |-> "export", arg |-> d, type |-> "", message |-> ConvExport(d)]
  /\ UNCHANGED widget

\* the host converts a block to an Alert and back
ImportExport(s) ==
  /\ conv' = [op |-> "roundtrip", arg |-> [type |-> "", message |-> s],
              type |-> ConvImport(s).type,
              message |-> ConvExport(ConvImport(s))]
  /\ UNCHANGED widget

\* the host converts an Alert to another Alert through its exported string
ExportImport(d) ==
  /\ LET r == ConvImport(ConvExport(d))
     IN  conv' = [op |-> "reimport", arg |-> d,
                  type |-> r.type, message |-> r.message]
  /\ UNCHANGED widget

\* ---- specifications ------------------------------------------------------
Next ==
  \/ Render
  \/ RenderSettings
  \/ \E i \in 1..Len(ALERT_TYPES) : Click(ALERT_TYPES[i])
  \/ \E h \in DomContents : Edit(h)
  \/ Save
  \/ \E el \in PasteElements : OnPaste(el)

Spec == Init /\ [][Next]_vars

\* conversionConfig is static: the calls involve no instance, which is held
\* as constructed from an empty record under an empty configuration
InitConv ==
  /\ Init
  /\ config = NoFields
  /\ origin.input = NoFields
  /\ ~readOnly

NextConv ==
  \/ \E s \in Messages : Import(s)
  \/ \E t \in AnyTypes, m \in Messages : Export([type |-> t, message |-> m])
  \/ \E s \in Messages : ImportExport(s)
  \/ \E t \in AnyTypes, m \in Messages :
       ExportImport([type |-> t, message |-> m])

SpecConv == InitConv /\ [][NextConv]_vars

\* ---- properties ----------------------------------------------------------
Supported(t) == Includes(ALERT_TYPES, t)

\* the classes wrapperForType can produce for any type string of the model
TypeClasses == {wrapperForType(t) : t \in AnyTypes}

FromCtor == origin.kind = "constructor"

InputType == origin.input.type

InputMessage == origin.input.message

\* the type a configuration asks for, DEFAULT_TYPE when it asks for none
ConfiguredDefault ==
  IF config = NoFields \/ config.defaultType = "" THEN "info"
  ELSE config.defaultType

\* C1: the record's type, and the type of every record save returns, is
\* always one of the supported types.
TypeAlwaysSupported ==
  /\ Supported(data.type)
  /\ last.op = "save" => Supported(last.type)

\* a valid record was constructed, rendered and saved with no pick, edit or
\* paste in between
PlainRoundTrip ==
  /\ last.op = "save"
  /\ FromCtor
  /\ Has(origin.input, "type")
  /\ Has(origin.input, "message")
  /\ Supported(InputType)
  /\ lastPick = ""
  /\ ~edited

\* C2 (as claimed): render then save returns exactly the input message and
\* the input type.
RoundTripIdentity ==
  PlainRoundTrip => last.message = InputMessage /\ last.type = InputType

\* C2 (amended): render then save returns the input type and the input
\* message as the element serializes it, which is the input message itself
\* whenever that is already serialized HTML.
RoundTripSerialized ==
  PlainRoundTrip =>
    /\ last.type = InputType
    /\ last.message = Serialize(InputMessage)
    /\ InputMessage \in DomContents => last.message = InputMessage

RoundTripSerializedWitness ==
  /\ PlainRoundTrip
  /\ InputMessage = <<"a", "&">>
  /\ last.message = <<"a", "&amp;">>

\* C3: construction keeps a supported input type, replaces any other by the
\* configured default (by "info" when none is configured), keeps a non-empty
\* message and turns a missing or empty one into the empty string.
ConstructionDefaults ==
  last.op = "constructor" =>
    LET d == origin.input
    IN  /\ (Has(d, "type") /\ d.type \in {"info", "hinweis", "warnung"})
             => data.type = d.type
        /\ ~(Has(d, "type") /\ d.type \in {"info", "hinweis", "warnung"})
             => data.type = ConfiguredDefault
        /\ (Has(d, "message") /\ Len(d.message) > 0) => data.message = d.message
        /\ ~(Has(d, "message") /\ Len(d.message) > 0) => data.message = <<>>
        /\ DOMAIN data = {"type", "message"}

ConstructionDefaultsWitness ==
  /\ last.op = "constructor"
  /\ Has(origin.input, "type")
  /\ InputType = UnsupportedType
  /\ ~Has(origin.input, "message")
  /\ config = [defaultType |-> "warnung"]
  /\ data = [type |-> "warnung", message |-> <<>>]

\* C4: after picks and edits on a rendered widget, save returns the type
\* picked last (the constructed type if none was picked) and the content the
\* message element has when save is called.
SaveReturnsPickAndContent ==
  (last.op = "save" /\ FromCtor) =>
    /\ last.type = IF lastPick # "" THEN lastPick
                   ELSE IF Has(origin.input, "type") /\ Supported(InputType)
                          THEN InputType
                          ELSE defaultType
    /\ last.message = container.innerHTML

SaveReturnsPickAndContentWitness ==
  /\ last.op = "save"
  /\ FromCtor
  /\ edited
  /\ Has(origin.input, "type")
  /\ InputType = "info"
  /\ lastPick = "warnung"
  /\ last.type = "warnung"
  /\ last.message # Serialize(data.message)

\* C5: a click on the picker for T on a rendered widget sets the type to T,
\* leaves the container with the type class of T and of no other type, and
\* leaves the wrapper class and the message element as they were.
ClickRestyles ==
  [][\A i \in 1..Len(ALERT_TYPES) :
       (Click(ALERT_TYPES[i]) /\ container.defined) =>
         /\ data'.type = ALERT_TYPES[i]
         /\ container'.classList \cap TypeClasses
              = {wrapperForType(ALERT_TYPES[i])}
         /\ CssWrapper \in container'.classList
         /\ container'.innerHTML = container.innerHTML]_vars

\* C6: onPaste replaces the record by {the default type, the pasted
\* element's innerHTML or the empty string}.
PasteResets ==
  last.op = "onPaste" =>
    /\ data.type = ConfiguredDefault
    /\ data.message = IF Has(origin.input, "innerHTML")
                        THEN origin.input.innerHTML
                        ELSE <<>>
    /\ DOMAIN data = {"type", "message"}

PasteResetsWitness ==
  /\ last.op = "onPaste"
  /\ config = [defaultType |-> "warnung"]
  /\ origin.input = [innerHTML |-> <<"a">>]
  /\ container.defined
  /\ container.innerHTML = <<"&amp;">>
  /\ data = [type |-> "warnung", message |-> <<"a">>]

\* C7: no call ends in an exception.
NoCallThrows == ~last.threw

\* the message this.data was built with
BuiltMessage ==
  LET src == origin.input
      f == IF FromCtor THEN "message" ELSE "innerHTML"
  IN  IF Has(src, f) THEN src[f] ELSE <<>>

\* C8 (as claimed): once the user has edited the message element,
\* this.data.message holds the edited content.
EditReachesRecord ==
  (container.defined /\ edited) => data.message = container.innerHTML

\* C8 (amended): an edit changes the message element only; this.data.message
\* stays the message it was built with (by the constructor or onPaste), save
\* returns the element's content without storing it, and render shows
\* this.data.message.
EditStaysInElement ==
  /\ data.message = BuiltMessage
  /\ last.op = "render" => container.innerHTML = Serialize(data.message)

EditStaysInElementWitness ==
  /\ last.op = "save"
  /\ edited
  /\ last.message = <<"a">>
  /\ data.message = <<"&amp;">>
  /\ container.innerHTML = <<"a">>

\* C9: import(s) is {message: s, type: the default type}, a supported type;
\* export(import(s)) is s; export(d) is d.message whatever d.type is, so
\* import(export(d)) keeps d's message under the default type.
ConversionRoundTrip ==
  /\ conv.op = "import" =>
       /\ conv.message = conv.arg.message
       /\ conv.type = "info"
       /\ Supported(conv.type)
  /\ conv.op = "roundtrip" => conv.message = conv.arg.message
  /\ conv.op = "export" => conv.message = conv.arg.message
  /\ conv.op = "reimport" =>
       conv.message = conv.arg.message /\ conv.type = "info"

ConversionRoundTripWitness ==
  /\ conv.op = "roundtrip"
  /\ conv.arg.message = <<"&", "a">>
  /\ conv.message = <<"&", "a">>

\* C10: once rendered, the container carries exactly the type class of the
\* record's type and, unless the user edited it, the message element shows
\* the record's message (as the element serializes it).
ViewAgreesWithRecord ==
  container.defined =>
    /\ container.classList \cap TypeClasses = {wrapperForType(data.type)}
    /\ ~edited => container.innerHTML = Serialize(data.message)

====
